---- MODULE Spec2Model ----
(***************************************************************************)
(* State-machine model of the App component (src/App.tsx) of the AI code   *)
(* editor: the correction workflow, the chat workflow, the split-pane      *)
(* resizer and the preview / log panel controller, together with the view  *)
(* gating of CodeView.tsx and ChatBar.tsx and the two collaborator         *)
(* wrappers correctCode / getChatResponse.                                 *)
(*                                                                         *)
(* Texts are sequences of one-character strings, so that String.trim and   *)
(* Array.join are computed and not assumed.  A nullable React state is     *)
(* NULL or Some(v).  Every await is a suspension point: a handler with an  *)
(* await is two actions, the part before the await and the continuation    *)
(* that runs when the promise settles.                                     *)
(***************************************************************************)
EXTENDS Integers, Sequences, FiniteSets, TLC

VARIABLES
    htmlCode, cssCode,          \* App.tsx:33-34  code buffers
    htmlDiff, cssDiff,          \* App.tsx:35-36  Correction[] | null
    isLoading,                  \* App.tsx:37
    error,                      \* App.tsx:38     string | null
    logs,                       \* App.tsx:39     newest first
    isLogPanelExpanded,         \* App.tsx:40
    isPreviewPanelExpanded,     \* App.tsx:41
    isPreviewFullScreen,        \* App.tsx:42
    isPreviewPinned,            \* App.tsx:43
    chatQuery,                  \* App.tsx:45
    chatResponse,               \* App.tsx:46
    isChatResponseVisible,      \* App.tsx:47
    isChatLoading,              \* App.tsx:48
    dividerPosition,            \* App.tsx:50
    isDragging,                 \* App.tsx:51
    listeners,                  \* document listeners registered by the drag effect
    corrCalls,                  \* correctCode promises not yet settled (their arguments)
    chatCalls,                  \* getChatResponse promises not yet settled
    lastOp,                     \* history: the event handled last
    events,                     \* history: the number of user events so far
    requested                   \* history: the buffers passed to the last correctCode call

corrVars  == <<htmlCode, cssCode, htmlDiff, cssDiff, isLoading, error, corrCalls, requested>>
chatVars  == <<chatQuery, chatResponse, isChatResponseVisible, isChatLoading, chatCalls>>
panelVars == <<isLogPanelExpanded, isPreviewPanelExpanded, isPreviewFullScreen, isPreviewPinned>>
dragVars  == <<dividerPosition, isDragging, listeners>>
vars == <<corrVars, chatVars, panelVars, dragVars, logs, lastOp, events>>

----------------------------------------------------------------------------
(* Bounds of the model *)

\* the number of user events (clicks, key strokes, pointer events) in a run;
\* a promise that settles is not counted and is never held back
MaxEvents == 5

----------------------------------------------------------------------------
(* Events *)

\* a user event named op is handled
UserEvent(op) == events < MaxEvents /\ events' = events + 1 /\ lastOp' = op

\* a promise settles and the continuation named op runs
Settled(op) == events' = events /\ lastOp' = op

----------------------------------------------------------------------------
(* Values *)

NULL == [tag |-> "null"]
Some(v) == [tag |-> "some", val |-> v]

\* a truthiness test that takes the empty array for falsy
Truthy_EmptyIsFalsy(x) == x # NULL /\ x.val # <<>>

\* JavaScript truthiness of an array-or-null value: only null is falsy
Truthy(x) == x # NULL

\* String.prototype.trim: strips leading and trailing white space
IsWhiteSpace(c) == c \in {" ", "\n", "\t"}

RECURSIVE TrimStart(_)
TrimStart(s) ==
    IF s = <<>> THEN <<>>
    ELSE IF IsWhiteSpace(Head(s)) THEN TrimStart(Tail(s)) ELSE s

RECURSIVE TrimEnd(_)
TrimEnd(s) ==
    IF s = <<>> THEN <<>>
    ELSE IF IsWhiteSpace(s[Len(s)]) THEN TrimEnd(SubSeq(s, 1, Len(s) - 1)) ELSE s

\* a validation that forgets to trim
trim_Forgotten(s) == s

trim(s) == TrimEnd(TrimStart(s))

\* a join that leaves the separator out
RECURSIVE join_NoSeparator(_, _)
join_NoSeparator(arr, sep) ==
    IF arr = <<>> THEN <<>>
    ELSE arr[1] \o join_NoSeparator(Tail(arr), sep)

\* Array.prototype.join(sep) on an array of texts: "" for the empty array
RECURSIVE join(_, _)
join(arr, sep) ==
    IF arr = <<>> THEN <<>>
    ELSE IF Len(arr) = 1 THEN arr[1]
    ELSE arr[1] \o sep \o join(Tail(arr), sep)

\* diff.map(line => line.corrected)
mapCorrected(diff) == [i \in 1..Len(diff) |-> diff[i].corrected]

\* String.prototype.split("\n"): the lines of a text (always at least one)
RECURSIVE splitLines(_, _)
splitLines(s, cur) ==
    IF s = <<>> THEN <<cur>>
    ELSE IF Head(s) = "\n" THEN <<cur>> \o splitLines(Tail(s), <<>>)
    ELSE splitLines(Tail(s), Append(cur, Head(s)))

\* a text as a TLA+ string, for template literals
RECURSIVE Str(_)
Str(s) == IF s = <<>> THEN "" ELSE Head(s) \o Str(Tail(s))

Reverse(arr) == [i \in 1..Len(arr) |-> arr[Len(arr) + 1 - i]]

----------------------------------------------------------------------------
(* Log recorder *)

\* new Date().toLocaleTimeString(): the wall clock, which no handler reads back
timestamp == "HH:MM:SS"

\* a recorder that puts the new entry last
addLog_OldestFirst(prev, message) == prev \o <<"[" \o timestamp \o "] " \o message>>

\* setLogs(prev => [`[${timestamp}] ${message}`, ...prev])
addLog(prev, message) == <<"[" \o timestamp \o "] " \o message>> \o prev

----------------------------------------------------------------------------
(* Initial buffers and the texts a user types *)

\* initialHtml, initialCss: non-blank multi-line texts, each line abstracted
\* to one character
initialHtml == <<"h", "\n", "p">>
initialCss == <<"c">>

\* values of e.target.value on a textarea change: empty, white space only,
\* and a two-line text
EditTexts == {<<>>, <<" ">>, <<"a", "\n", "b">>}
FewTexts == {<<" ">>}

----------------------------------------------------------------------------
(* The correction collaborator: correctCode (services/geminiService)       *)

\* one Correction record (types.ts)
Correction(n, orig, corr, isErr, expl) ==
    [lineNumber |-> n, original |-> orig, corrected |-> corr,
     isError |-> isErr, explanation |-> expl]

\* the answer the prompt asks for when no line has an error: one record per
\* line, in order, corrected = original
Honest(text) ==
    LET ls == splitLines(text, <<>>)
    IN  [i \in 1..Len(ls) |-> Correction(i, ls[i], ls[i], FALSE, "ok")]

\* an answer that corrects every line
Fixed(text) ==
    LET ls == splitLines(text, <<>>)
    IN  [i \in 1..Len(ls) |-> Correction(i, ls[i], <<"x">> \o ls[i], TRUE, "fix")]

\* the array the model may put under one key for one file: the two above,
\* no record at all, the records out of order, or no array
ApiArray(style, text) ==
    CASE style = "honest"   -> Some(Honest(text))
      [] style = "fixed"    -> Some(Fixed(text))
      [] style = "empty"    -> Some(<<>>)
      [] style = "reversed" -> Some(Reverse(Fixed(text)))
      [] style = "missing"  -> NULL

\* what the generateContent call and JSON.parse give for one request: the
\* credential is missing, the call rejects, or a JSON value is parsed whose
\* two keys hold an array or nothing
ApiOutcome(answer, call) ==
    CASE answer.kind = "noKey"   -> [kind |-> "noKey"]
      [] answer.kind = "rejects" -> [kind |-> "rejects", message |-> "503"]
      [] answer.kind = "parsed"  ->
            [kind |-> "parsed",
             htmlCorrections |-> ApiArray(answer.html, call.htmlCode),
             cssCorrections |-> ApiArray(answer.css, call.cssCode)]

Parsed(h, c) == [kind |-> "parsed", html |-> h, css |-> c]

\* the answers of the correction API: every pairing of the well-formed
\* arrays, and two answers that lack an array
Answers ==
    {[kind |-> "noKey"], [kind |-> "rejects"]}
    \cup {Parsed(h, c) : h \in {"honest", "fixed", "empty", "reversed"},
                         c \in {"honest", "fixed", "empty", "reversed"}}
    \cup {Parsed("honest", "missing"), Parsed("missing", "missing")}

\* a failure, a well-formed answer and one that lacks an array
FewAnswers == {[kind |-> "rejects"], Parsed("fixed", "empty"), Parsed("honest", "missing")}

Return(v) == [kind |-> "return", value |-> v]
Throw(m) == [kind |-> "throw", instanceofError |-> TRUE, message |-> m]

\* Array.isArray on a key of the parsed JSON
IsArray(x) == x # NULL

\* a wrapper that rethrows the failure of the API as it is
correctCode_Rethrows(outcome) ==
    IF outcome.kind = "noKey"
    THEN Throw("API_KEY environment variable not set")
    ELSE IF outcome.kind = "rejects"
    THEN Throw(outcome.message)
    ELSE IF IsArray(outcome.htmlCorrections) /\ IsArray(outcome.cssCorrections)
    THEN Return([htmlCorrections |-> outcome.htmlCorrections,
                 cssCorrections |-> outcome.cssCorrections])
    ELSE Throw("Failed to correct code: Invalid JSON response format from API. "
               \o "Expected 'htmlCorrections' and 'cssCorrections' arrays.")

\* correctCode: the settled value of its promise for one outcome of the API
correctCode(outcome) ==
    IF outcome.kind = "noKey"
    THEN Throw("API_KEY environment variable not set")
    ELSE IF outcome.kind = "rejects"
    THEN Throw("Failed to correct code: " \o outcome.message)
    ELSE IF IsArray(outcome.htmlCorrections) /\ IsArray(outcome.cssCorrections)
    THEN Return([htmlCorrections |-> outcome.htmlCorrections,
                 cssCorrections |-> outcome.cssCorrections])
    ELSE Throw("Failed to correct code: Invalid JSON response format from API. "
               \o "Expected 'htmlCorrections' and 'cssCorrections' arrays.")

----------------------------------------------------------------------------
(* Correction workflow *)

RemoveAt(seq, i) == SubSeq(seq, 1, i - 1) \o SubSeq(seq, i + 1, Len(seq))

\* a request that leaves the previous error in place
handleCorrectCode_KeepsError ==
    /\ UserEvent("requestCorrection")
    /\ IF trim(htmlCode) = <<>> /\ trim(cssCode) = <<>>
       THEN LET msg == "Please enter some HTML or CSS code to correct."
            IN  /\ error' = Some(msg)
                /\ logs' = addLog(logs, "Validation Error: " \o msg)
                /\ UNCHANGED <<htmlCode, cssCode, htmlDiff, cssDiff, isLoading,
                               corrCalls, requested>>
       ELSE /\ logs' = addLog(logs, "Correction process started...")
            /\ isLoading' = TRUE
            /\ htmlDiff' = NULL
            /\ cssDiff' = NULL
            /\ corrCalls' = Append(corrCalls, [htmlCode |-> htmlCode, cssCode |-> cssCode])
            /\ requested' = [htmlCode |-> htmlCode, cssCode |-> cssCode]
            /\ UNCHANGED <<htmlCode, cssCode, error>>
    /\ UNCHANGED <<chatVars, panelVars, dragVars>>

\* handleCorrectCode up to its await
handleCorrectCode ==
    /\ UserEvent("requestCorrection")
    /\ IF trim(htmlCode) = <<>> /\ trim(cssCode) = <<>>
       THEN LET msg == "Please enter some HTML or CSS code to correct."
            IN  /\ error' = Some(msg)
                /\ logs' = addLog(logs, "Validation Error: " \o msg)
                /\ UNCHANGED <<htmlCode, cssCode, htmlDiff, cssDiff, isLoading,
                               corrCalls, requested>>
       ELSE /\ logs' = addLog(logs, "Correction process started...")
            /\ isLoading' = TRUE
            /\ error' = NULL
            /\ htmlDiff' = NULL
            /\ cssDiff' = NULL
            /\ corrCalls' = Append(corrCalls, [htmlCode |-> htmlCode, cssCode |-> cssCode])
            /\ requested' = [htmlCode |-> htmlCode, cssCode |-> cssCode]
            /\ UNCHANGED <<htmlCode, cssCode>>
    /\ UNCHANGED <<chatVars, panelVars, dragVars>>

\* a continuation that stores the HTML sequence only
resumeCorrectCode_HtmlOnly(i, settled) ==
    /\ Settled("correctionSettled")
    /\ corrCalls' = RemoveAt(corrCalls, i)
    /\ IF settled.kind = "return"
       THEN IF Truthy(settled.value.htmlCorrections) /\ Truthy(settled.value.cssCorrections)
            THEN /\ htmlDiff' = settled.value.htmlCorrections
                 /\ cssDiff' = cssDiff
                 /\ logs' = addLog(addLog(logs, "Correction successful. Diff generated."),
                                   "Correction process finished.")
                 /\ UNCHANGED error
            ELSE LET msg == "No corrections found or unexpected API response."
                 IN  /\ error' = Some(msg)
                     /\ logs' = addLog(addLog(logs, "API Warning: " \o msg),
                                       "Correction process finished.")
                     /\ UNCHANGED <<htmlDiff, cssDiff>>
       ELSE IF settled.instanceofError
            THEN /\ error' = Some(settled.message)
                 /\ logs' = addLog(addLog(logs, "API Error: " \o settled.message),
                                   "Correction process finished.")
                 /\ UNCHANGED <<htmlDiff, cssDiff>>
            ELSE LET msg == "An unknown error occurred."
                 IN  /\ error' = Some(msg)
                     /\ logs' = addLog(addLog(logs, "Error: " \o msg),
                                       "Correction process finished.")
                     /\ UNCHANGED <<htmlDiff, cssDiff>>
    /\ isLoading' = FALSE
    /\ UNCHANGED <<htmlCode, cssCode, requested, chatVars, panelVars, dragVars>>

\* a continuation that resets the loading flag in the try block, not in a finally
resumeCorrectCode_NoFinally(i, settled) ==
    /\ Settled("correctionSettled")
    /\ corrCalls' = RemoveAt(corrCalls, i)
    /\ IF settled.kind = "return"
       THEN IF Truthy(settled.value.htmlCorrections) /\ Truthy(settled.value.cssCorrections)
            THEN /\ htmlDiff' = settled.value.htmlCorrections
                 /\ cssDiff' = settled.value.cssCorrections
                 /\ logs' = addLog(addLog(logs, "Correction successful. Diff generated."),
                                   "Correction process finished.")
                 /\ UNCHANGED error
            ELSE LET msg == "No corrections found or unexpected API response."
                 IN  /\ error' = Some(msg)
                     /\ logs' = addLog(addLog(logs, "API Warning: " \o msg),
                                       "Correction process finished.")
                     /\ UNCHANGED <<htmlDiff, cssDiff>>
       ELSE IF settled.instanceofError
            THEN /\ error' = Some(settled.message)
                 /\ logs' = addLog(addLog(logs, "API Error: " \o settled.message),
                                   "Correction process finished.")
                 /\ UNCHANGED <<htmlDiff, cssDiff>>
            ELSE LET msg == "An unknown error occurred."
                 IN  /\ error' = Some(msg)
                     /\ logs' = addLog(addLog(logs, "Error: " \o msg),
                                       "Correction process finished.")
                     /\ UNCHANGED <<htmlDiff, cssDiff>>
    /\ isLoading' = (settled.kind # "return")
    /\ UNCHANGED <<htmlCode, cssCode, requested, chatVars, panelVars, dragVars>>

\* a continuation whose catch clause swallows the failure
resumeCorrectCode_SilentCatch(i, settled) ==
    /\ Settled("correctionSettled")
    /\ corrCalls' = RemoveAt(corrCalls, i)
    /\ IF settled.kind = "return"
       THEN IF Truthy(settled.value.htmlCorrections) /\ Truthy(settled.value.cssCorrections)
            THEN /\ htmlDiff' = settled.value.htmlCorrections
                 /\ cssDiff' = settled.value.cssCorrections
                 /\ logs' = addLog(addLog(logs, "Correction successful. Diff generated."),
                                   "Correction process finished.")
                 /\ UNCHANGED error
            ELSE LET msg == "No corrections found or unexpected API response."
                 IN  /\ error' = Some(msg)
                     /\ logs' = addLog(addLog(logs, "API Warning: " \o msg),
                                       "Correction process finished.")
                     /\ UNCHANGED <<htmlDiff, cssDiff>>
       ELSE /\ logs' = addLog(logs, "Correction process finished.")
            /\ UNCHANGED <<error, htmlDiff, cssDiff>>
    /\ isLoading' = FALSE
    /\ UNCHANGED <<htmlCode, cssCode, requested, chatVars, panelVars, dragVars>>

\* a continuation that resets the loading flag in the catch clause only
resumeCorrectCode_ResetsOnlyOnFailure(i, settled) ==
    /\ Settled("correctionSettled")
    /\ corrCalls' = RemoveAt(corrCalls, i)
    /\ IF settled.kind = "return"
       THEN IF Truthy(settled.value.htmlCorrections) /\ Truthy(settled.value.cssCorrections)
            THEN /\ htmlDiff' = settled.value.htmlCorrections
                 /\ cssDiff' = settled.value.cssCorrections
                 /\ logs' = addLog(addLog(logs, "Correction successful. Diff generated."),
                                   "Correction process finished.")
                 /\ UNCHANGED error
            ELSE LET msg == "No corrections found or unexpected API response."
                 IN  /\ error' = Some(msg)
                     /\ logs' = addLog(addLog(logs, "API Warning: " \o msg),
                                       "Correction process finished.")
                     /\ UNCHANGED <<htmlDiff, cssDiff>>
       ELSE IF settled.instanceofError
            THEN /\ error' = Some(settled.message)
                 /\ logs' = addLog(addLog(logs, "API Error: " \o settled.message),
                                   "Correction process finished.")
                 /\ UNCHANGED <<htmlDiff, cssDiff>>
            ELSE LET msg == "An unknown error occurred."
                 IN  /\ error' = Some(msg)
                     /\ logs' = addLog(addLog(logs, "Error: " \o msg),
                                       "Correction process finished.")
                     /\ UNCHANGED <<htmlDiff, cssDiff>>
    /\ isLoading' = (settled.kind = "return")
    /\ UNCHANGED <<htmlCode, cssCode, requested, chatVars, panelVars, dragVars>>

\* a continuation that logs the end in the try block, not in a finally
resumeCorrectCode_FinishedInTry(i, settled) ==
    /\ Settled("correctionSettled")
    /\ corrCalls' = RemoveAt(corrCalls, i)
    /\ IF settled.kind = "return"
       THEN IF Truthy(settled.value.htmlCorrections) /\ Truthy(settled.value.cssCorrections)
            THEN /\ htmlDiff' = settled.value.htmlCorrections
                 /\ cssDiff' = settled.value.cssCorrections
                 /\ logs' = addLog(addLog(logs, "Correction successful. Diff generated."),
                                   "Correction process finished.")
                 /\ UNCHANGED error
            ELSE LET msg == "No corrections found or unexpected API response."
                 IN  /\ error' = Some(msg)
                     /\ logs' = addLog(addLog(logs, "API Warning: " \o msg),
                                       "Correction process finished.")
                     /\ UNCHANGED <<htmlDiff, cssDiff>>
       ELSE IF settled.instanceofError
            THEN /\ error' = Some(settled.message)
                 /\ logs' = addLog(logs, "API Error: " \o settled.message)
                 /\ UNCHANGED <<htmlDiff, cssDiff>>
            ELSE LET msg == "An unknown error occurred."
                 IN  /\ error' = Some(msg)
                     /\ logs' = addLog(logs, "Error: " \o msg)
                     /\ UNCHANGED <<htmlDiff, cssDiff>>
    /\ isLoading' = FALSE
    /\ UNCHANGED <<htmlCode, cssCode, requested, chatVars, panelVars, dragVars>>

\* handleCorrectCode from the await on: try / catch / finally for the settled
\* promise of call i
resumeCorrectCode(i, settled) ==
    /\ Settled("correctionSettled")
    /\ corrCalls' = RemoveAt(corrCalls, i)
    /\ IF settled.kind = "return"
       THEN IF Truthy(settled.value.htmlCorrections) /\ Truthy(settled.value.cssCorrections)
            THEN /\ htmlDiff' = settled.value.htmlCorrections
                 /\ cssDiff' = settled.value.cssCorrections
                 /\ logs' = addLog(addLog(logs, "Correction successful. Diff generated."),
                                   "Correction process finished.")
                 /\ UNCHANGED error
            ELSE LET msg == "No corrections found or unexpected API response."
                 IN  /\ error' = Some(msg)
                     /\ logs' = addLog(addLog(logs, "API Warning: " \o msg),
                                       "Correction process finished.")
                     /\ UNCHANGED <<htmlDiff, cssDiff>>
       ELSE IF settled.instanceofError
            THEN /\ error' = Some(settled.message)
                 /\ logs' = addLog(addLog(logs, "API Error: " \o settled.message),
                                   "Correction process finished.")
                 /\ UNCHANGED <<htmlDiff, cssDiff>>
            ELSE LET msg == "An unknown error occurred."
                 IN  /\ error' = Some(msg)
                     /\ logs' = addLog(addLog(logs, "Error: " \o msg),
                                       "Correction process finished.")
                     /\ UNCHANGED <<htmlDiff, cssDiff>>
    /\ isLoading' = FALSE
    /\ UNCHANGED <<htmlCode, cssCode, requested, chatVars, panelVars, dragVars>>

\* an accept that joins the original lines
handleAcceptCorrection_JoinsOriginal ==
    /\ UserEvent("acceptCorrection")
    /\ htmlCode' = IF Truthy(htmlDiff)
                   THEN join([i \in 1..Len(htmlDiff.val) |-> htmlDiff.val[i].original], <<"\n">>)
                   ELSE htmlCode
    /\ cssCode' = IF Truthy(cssDiff)
                  THEN join([i \in 1..Len(cssDiff.val) |-> cssDiff.val[i].original], <<"\n">>)
                  ELSE cssCode
    /\ htmlDiff' = NULL
    /\ cssDiff' = NULL
    /\ logs' = addLog(logs, "Corrections accepted by user.")
    /\ UNCHANGED <<isLoading, error, corrCalls, requested, chatVars, panelVars, dragVars>>

\* handleAcceptCorrection
handleAcceptCorrection ==
    /\ UserEvent("acceptCorrection")
    /\ htmlCode' = IF Truthy(htmlDiff) THEN join(mapCorrected(htmlDiff.val), <<"\n">>)
                   ELSE htmlCode
    /\ cssCode' = IF Truthy(cssDiff) THEN join(mapCorrected(cssDiff.val), <<"\n">>)
                  ELSE cssCode
    /\ htmlDiff' = NULL
    /\ cssDiff' = NULL
    /\ logs' = addLog(logs, "Corrections accepted by user.")
    /\ UNCHANGED <<isLoading, error, corrCalls, requested, chatVars, panelVars, dragVars>>

\* an edit-again that also closes the chat popup
handleEditAgain_ClosesPopup ==
    /\ UserEvent("editAgain")
    /\ htmlDiff' = NULL
    /\ cssDiff' = NULL
    /\ isChatResponseVisible' = FALSE
    /\ logs' = addLog(logs, "User returned to edit mode.")
    /\ UNCHANGED <<htmlCode, cssCode, isLoading, error, corrCalls, requested,
                   chatQuery, chatResponse, isChatLoading, chatCalls, panelVars, dragVars>>

\* handleEditAgain
handleEditAgain ==
    /\ UserEvent("editAgain")
    /\ htmlDiff' = NULL
    /\ cssDiff' = NULL
    /\ logs' = addLog(logs, "User returned to edit mode.")
    /\ UNCHANGED <<htmlCode, cssCode, isLoading, error, corrCalls, requested,
                   chatVars, panelVars, dragVars>>

(* The view: which of these handlers an event can reach *)

\* a correct button that is disabled only during review
CorrectButtonDisabled_NotWhileLoading == Truthy(htmlDiff) /\ Truthy(cssDiff)

\* a correct button that is disabled only while loading
CorrectButtonDisabled_OnlyWhileLoading == isLoading

\* the correct button's disabled attribute
CorrectButtonDisabled == isLoading \/ (Truthy(htmlDiff) /\ Truthy(cssDiff))

\* review buttons that are rendered whenever no request is outstanding
ReviewButtonsRendered_WheneverIdle == ~isLoading

\* the Edit Again / Accept All Corrections buttons are rendered
ReviewButtonsRendered == Truthy(htmlDiff) /\ Truthy(cssDiff) /\ ~isLoading

\* a textarea that stays enabled while the request is outstanding
TextareaEditable_NotDisabled(diff) == ~Truthy(diff)

\* a textarea that is also rendered over a stored correction sequence
TextareaEditable_DuringReview(diff) == ~isLoading

\* CodeView renders an enabled textarea for a pane: no diff, not loading
TextareaEditable(diff) == ~Truthy(diff) /\ ~isLoading

ClickCorrect ==
    /\ ~CorrectButtonDisabled
    /\ handleCorrectCode

CorrectCodeSettles(answers) ==
    \E i \in 1..Len(corrCalls) :
        \E answer \in answers :
            resumeCorrectCode(i, correctCode(ApiOutcome(answer, corrCalls[i])))

ClickAccept ==
    /\ ReviewButtonsRendered
    /\ handleAcceptCorrection

ClickEditAgain ==
    /\ ReviewButtonsRendered
    /\ handleEditAgain

\* onChange of the HTML textarea: setHtmlCode(e.target.value)
TypeHtml(texts) ==
    /\ TextareaEditable(htmlDiff)
    /\ \E t \in texts : htmlCode' = t
    /\ UserEvent("typeHtml")
    /\ UNCHANGED <<cssCode, htmlDiff, cssDiff, isLoading, error, corrCalls, requested,
                   logs, chatVars, panelVars, dragVars>>

\* onChange of the CSS textarea: setCssCode(e.target.value)
TypeCss(texts) ==
    /\ TextareaEditable(cssDiff)
    /\ \E t \in texts : cssCode' = t
    /\ UserEvent("typeCss")
    /\ UNCHANGED <<htmlCode, htmlDiff, cssDiff, isLoading, error, corrCalls, requested,
                   logs, chatVars, panelVars, dragVars>>

----------------------------------------------------------------------------
(* The chat collaborator: getChatResponse (services/geminiService)         *)

\* values of e.target.value on the chat input: empty, white space only, a question
QueryTexts == {<<>>, <<" ">>, <<"q">>}
FewQueries == {<<"q">>}

\* what the generateContent call gives for one chat request: the credential
\* is missing, the call rejects, or a text comes back
ChatOutcomes == {[kind |-> "noKey"], [kind |-> "rejects", message |-> "503"],
                 [kind |-> "text", text |-> "It is fine."]}
FewChatOutcomes == {[kind |-> "rejects", message |-> "503"],
                    [kind |-> "text", text |-> "It is fine."]}

\* getChatResponse: the settled value of its promise for one outcome of the API
getChatResponse(outcome) ==
    IF outcome.kind = "noKey"
    THEN Throw("API_KEY environment variable not set")
    ELSE IF outcome.kind = "rejects"
    THEN Throw("Failed to get chat response: " \o outcome.message)
    ELSE Return(outcome.text)

(* Chat workflow *)

\* a submit without the re-entrancy guard
handleChatSubmit_NoPendingGuard ==
    /\ UserEvent("submitQuery")
    /\ IF trim(chatQuery) = <<>>
       THEN UNCHANGED <<logs, chatVars, error>>
       ELSE /\ logs' = addLog(logs, "Chat query submitted: \"" \o Str(chatQuery) \o "\"")
            /\ isChatLoading' = TRUE
            /\ chatResponse' = ""
            /\ isChatResponseVisible' = TRUE
            /\ error' = NULL
            /\ chatCalls' = Append(chatCalls, [htmlCode |-> htmlCode, cssCode |-> cssCode,
                                               query |-> chatQuery])
            /\ UNCHANGED chatQuery
    /\ UNCHANGED <<htmlCode, cssCode, htmlDiff, cssDiff, isLoading, corrCalls, requested,
                   panelVars, dragVars>>

\* a submit that leaves the visibility of the popup as it is
handleChatSubmit_KeepsPopup ==
    /\ UserEvent("submitQuery")
    /\ IF trim(chatQuery) = <<>> \/ isChatLoading
       THEN UNCHANGED <<logs, chatVars, error>>
       ELSE /\ logs' = addLog(logs, "Chat query submitted: \"" \o Str(chatQuery) \o "\"")
            /\ isChatLoading' = TRUE
            /\ chatResponse' = ""
            /\ error' = NULL
            /\ chatCalls' = Append(chatCalls, [htmlCode |-> htmlCode, cssCode |-> cssCode,
                                               query |-> chatQuery])
            /\ UNCHANGED <<chatQuery, isChatResponseVisible>>
    /\ UNCHANGED <<htmlCode, cssCode, htmlDiff, cssDiff, isLoading, corrCalls, requested,
                   panelVars, dragVars>>

\* handleChatSubmit up to its await
handleChatSubmit ==
    /\ UserEvent("submitQuery")
    /\ IF trim(chatQuery) = <<>> \/ isChatLoading
       THEN UNCHANGED <<logs, chatVars, error>>
       ELSE /\ logs' = addLog(logs, "Chat query submitted: \"" \o Str(chatQuery) \o "\"")
            /\ isChatLoading' = TRUE
            /\ chatResponse' = ""
            /\ isChatResponseVisible' = TRUE
            /\ error' = NULL
            /\ chatCalls' = Append(chatCalls, [htmlCode |-> htmlCode, cssCode |-> cssCode,
                                               query |-> chatQuery])
            /\ UNCHANGED chatQuery
    /\ UNCHANGED <<htmlCode, cssCode, htmlDiff, cssDiff, isLoading, corrCalls, requested,
                   panelVars, dragVars>>

\* a continuation that also puts the chat failure in the error banner
resumeChatSubmit_SetsError(i, settled) ==
    /\ Settled("chatSettled")
    /\ chatCalls' = RemoveAt(chatCalls, i)
    /\ IF settled.kind = "return"
       THEN /\ chatResponse' = settled.value
            /\ logs' = addLog(logs, "Chat response received.")
       ELSE LET errorMessage == IF settled.instanceofError THEN settled.message
                                ELSE "An unknown chat error occurred."
            IN  /\ chatResponse' = "**Error:** " \o errorMessage
                /\ error' = Some(errorMessage)
                /\ logs' = addLog(logs, "Chat Error: " \o errorMessage)
    /\ isChatLoading' = FALSE
    /\ chatQuery' = <<>>
    /\ (settled.kind = "return" => error' = error)
    /\ UNCHANGED <<isChatResponseVisible, htmlCode, cssCode, htmlDiff, cssDiff, isLoading,
                   corrCalls, requested, panelVars, dragVars>>

\* a continuation that stores the failure message without a prefix
resumeChatSubmit_Unprefixed(i, settled) ==
    /\ Settled("chatSettled")
    /\ chatCalls' = RemoveAt(chatCalls, i)
    /\ IF settled.kind = "return"
       THEN /\ chatResponse' = settled.value
            /\ logs' = addLog(logs, "Chat response received.")
       ELSE LET errorMessage == IF settled.instanceofError THEN settled.message
                                ELSE "An unknown chat error occurred."
            IN  /\ chatResponse' = errorMessage
                /\ logs' = addLog(logs, "Chat Error: " \o errorMessage)
    /\ isChatLoading' = FALSE
    /\ chatQuery' = <<>>
    /\ UNCHANGED <<isChatResponseVisible, corrVars, panelVars, dragVars>>

\* handleChatSubmit from the await on: try / catch / finally for the settled
\* promise of call i
resumeChatSubmit(i, settled) ==
    /\ Settled("chatSettled")
    /\ chatCalls' = RemoveAt(chatCalls, i)
    /\ IF settled.kind = "return"
       THEN /\ chatResponse' = settled.value
            /\ logs' = addLog(logs, "Chat response received.")
       ELSE LET errorMessage == IF settled.instanceofError THEN settled.message
                                ELSE "An unknown chat error occurred."
            IN  /\ chatResponse' = "**Error:** " \o errorMessage
                /\ logs' = addLog(logs, "Chat Error: " \o errorMessage)
    /\ isChatLoading' = FALSE
    /\ chatQuery' = <<>>
    /\ UNCHANGED <<isChatResponseVisible, corrVars, panelVars, dragVars>>

\* the form's submit event
SubmitChat ==
    /\ handleChatSubmit

ChatSettles(outcomes) ==
    \E i \in 1..Len(chatCalls) :
        \E outcome \in outcomes :
            resumeChatSubmit(i, getChatResponse(outcome))

\* a chat input that stays enabled while the request is pending
TypeQuery_WhilePending(texts) ==
    /\ \E t \in texts : chatQuery' = t
    /\ UserEvent("typeQuery")
    /\ UNCHANGED <<chatResponse, isChatResponseVisible, isChatLoading, chatCalls,
                   corrVars, panelVars, dragVars, logs>>

\* onChange of the chat input (disabled while the chat request is pending)
TypeQuery(texts) ==
    /\ ~isChatLoading
    /\ \E t \in texts : chatQuery' = t
    /\ UserEvent("typeQuery")
    /\ UNCHANGED <<chatResponse, isChatResponseVisible, isChatLoading, chatCalls,
                   corrVars, panelVars, dragVars, logs>>

\* a close button that also forgets the stored response
DismissResponse_ClearsResponse ==
    /\ isChatResponseVisible
    /\ isChatResponseVisible' = FALSE
    /\ chatResponse' = ""
    /\ UserEvent("dismissResponse")
    /\ UNCHANGED <<chatQuery, isChatLoading, chatCalls,
                   corrVars, panelVars, dragVars, logs>>

\* onClose of the response popup, which is rendered while visible
DismissResponse ==
    /\ isChatResponseVisible
    /\ isChatResponseVisible' = FALSE
    /\ UserEvent("dismissResponse")
    /\ UNCHANGED <<chatQuery, chatResponse, isChatLoading, chatCalls,
                   corrVars, panelVars, dragVars, logs>>

----------------------------------------------------------------------------
(* JavaScript numbers, as far as the resizer computes with them: a rational *)
(* in lowest terms (rounding of the binary fraction is left out), an        *)
(* infinity, or NaN                                                         *)

RECURSIVE Gcd(_, _)
Gcd(a, b) == IF b = 0 THEN a ELSE Gcd(b, a % b)

Abs(a) == IF a < 0 THEN -a ELSE a

\* the rational n / d, d > 0
Num(n, d) ==
    LET g == Gcd(Abs(n), d)
    IN  [kind |-> "num", n |-> n \div g, d |-> d \div g]

Infinity == [kind |-> "inf", sign |-> 1]
NegInfinity == [kind |-> "inf", sign |-> -1]
NaN == [kind |-> "nan"]

\* a / b for an integer a and an integer b >= 0
Divide(a, b) ==
    IF b # 0 THEN Num(a, b)
    ELSE IF a > 0 THEN Infinity
    ELSE IF a < 0 THEN NegInfinity
    ELSE NaN

\* x * k for an integer k > 0
Times(x, k) == IF x.kind = "num" THEN Num(x.n * k, x.d) ELSE x

\* x < y, for x and y not NaN
Less(x, y) ==
    IF x.kind = "inf" THEN x.sign = -1 /\ y # x
    ELSE IF y.kind = "inf" THEN y.sign = 1
    ELSE x.n * y.d < y.n * x.d

\* Math.min, Math.max: NaN when an argument is NaN
MathMin(x, y) == IF x = NaN \/ y = NaN THEN NaN ELSE IF Less(y, x) THEN y ELSE x
MathMax(x, y) == IF x = NaN \/ y = NaN THEN NaN ELSE IF Less(x, y) THEN y ELSE x

----------------------------------------------------------------------------
(* Split-pane resizer *)

\* clientX of a mouse event, and the bounding rectangle of the editor
\* container: a laid-out container, one shifted right, one collapsed to no width
PointerXs == {-50, 0, 300, 1000}
Rects == {[left |-> 0, width |-> 1000], [left |-> 300, width |-> 1000],
          [left |-> 0, width |-> 0]}
FewPointerXs == {1000}
FewRects == {[left |-> 0, width |-> 1000]}

MinSplit == 15
MaxSplit == 85
InitialSplit == 50

\* an effect that registers the mousemove listener only
effectListeners_NoMouseUp(dragging) ==
    IF dragging THEN {[type |-> "mousemove", isDragging |-> dragging]} ELSE {}

\* the document listeners the effect of a render with this isDragging holds
\* registered: handleMouseMove is the closure of that render
effectListeners(dragging) ==
    IF dragging
    THEN {[type |-> "mousemove", isDragging |-> dragging], [type |-> "mouseup"]}
    ELSE {}

\* an effect without its cleanup: the listeners of an earlier render stay
useEffectDrag_NoCleanup(registered, before, after) ==
    registered \cup effectListeners(after)

\* useEffect on [isDragging, handleMouseMove, handleMouseUp]: when isDragging
\* changes, the cleanup of the previous effect runs, then the effect.  The
\* update is made in a mouse event, so React renders it and runs its effects
\* before the browser dispatches the next event: the listeners change in the
\* step that changes isDragging.
useEffectDrag(registered, before, after) ==
    IF before = after THEN registered
    ELSE (registered \ {[type |-> "mousemove", isDragging |-> before], [type |-> "mouseup"]})
         \cup effectListeners(after)

\* handleMouseMove of the render that saw closureDragging
handleMouseMove(closureDragging, clientX, rect) ==
    IF ~closureDragging
    THEN dividerPosition
    ELSE LET newX == clientX - rect.left
             newPosition == Times(Divide(newX, rect.width), 100)
         IN  MathMax(Num(MinSplit, 1), MathMin(Num(MaxSplit, 1), newPosition))

\* onMouseDown of the divider
handleMouseDown ==
    /\ UserEvent("beginDrag")
    /\ isDragging' = TRUE
    /\ listeners' = useEffectDrag(listeners, isDragging, TRUE)
    /\ UNCHANGED <<dividerPosition, corrVars, chatVars, panelVars, logs>>

\* a mouseup anywhere in the document: handleMouseUp, when it is registered
DocumentMouseUp ==
    /\ UserEvent("endDrag")
    /\ isDragging' = IF [type |-> "mouseup"] \in listeners THEN FALSE ELSE isDragging
    /\ listeners' = useEffectDrag(listeners, isDragging, isDragging')
    /\ UNCHANGED <<dividerPosition, corrVars, chatVars, panelVars, logs>>

\* a mousemove anywhere in the document: the registered handleMouseMove, if any
DocumentMouseMove(xs, rects) ==
    /\ UserEvent("pointerMove")
    /\ \E clientX \in xs, rect \in rects :
          dividerPosition' =
              IF \E l \in listeners : l.type = "mousemove"
              THEN LET l == CHOOSE l \in listeners : l.type = "mousemove"
                   IN  handleMouseMove(l.isDragging, clientX, rect)
              ELSE dividerPosition
    /\ UNCHANGED <<isDragging, listeners, corrVars, chatVars, panelVars, logs>>

----------------------------------------------------------------------------
(* Panel expansion controller *)

\* hover handlers that are dropped only while pinned
PreviewHoverHandled_IgnoresFullScreen == ~isPreviewPinned

\* the preview panel carries its hover handlers only while neither pinned
\* nor full screen
PreviewHoverHandled == ~isPreviewPinned /\ ~isPreviewFullScreen

PreviewMouseEnter ==
    /\ UserEvent("previewHoverEnter")
    /\ isPreviewPanelExpanded' = IF PreviewHoverHandled THEN TRUE ELSE isPreviewPanelExpanded
    /\ UNCHANGED <<isLogPanelExpanded, isPreviewFullScreen, isPreviewPinned,
                   corrVars, chatVars, dragVars, logs>>

PreviewMouseLeave ==
    /\ UserEvent("previewHoverLeave")
    /\ isPreviewPanelExpanded' = IF PreviewHoverHandled THEN FALSE ELSE isPreviewPanelExpanded
    /\ UNCHANGED <<isLogPanelExpanded, isPreviewFullScreen, isPreviewPinned,
                   corrVars, chatVars, dragVars, logs>>

LogMouseEnter ==
    /\ UserEvent("logHoverEnter")
    /\ isLogPanelExpanded' = TRUE
    /\ UNCHANGED <<isPreviewPanelExpanded, isPreviewFullScreen, isPreviewPinned,
                   corrVars, chatVars, dragVars, logs>>

LogMouseLeave ==
    /\ UserEvent("logHoverLeave")
    /\ isLogPanelExpanded' = FALSE
    /\ UNCHANGED <<isPreviewPanelExpanded, isPreviewFullScreen, isPreviewPinned,
                   corrVars, chatVars, dragVars, logs>>

handleTogglePreviewFullScreen ==
    /\ UserEvent("toggleFullscreen")
    /\ isPreviewPanelExpanded' = IF isPreviewFullScreen THEN FALSE ELSE isPreviewPanelExpanded
    /\ isPreviewFullScreen' = ~isPreviewFullScreen
    /\ UNCHANGED <<isLogPanelExpanded, isPreviewPinned, corrVars, chatVars, dragVars, logs>>

\* a pin toggle that only flips the flag
handleTogglePinPreview_OnlyFlips ==
    /\ UserEvent("togglePin")
    /\ isPreviewPinned' = ~isPreviewPinned
    /\ UNCHANGED <<isPreviewPanelExpanded, isLogPanelExpanded, isPreviewFullScreen,
                   corrVars, chatVars, dragVars, logs>>

handleTogglePinPreview ==
    /\ UserEvent("togglePin")
    /\ isPreviewPanelExpanded' = IF isPreviewPinned THEN FALSE ELSE isPreviewPanelExpanded
    /\ isPreviewPinned' = ~isPreviewPinned
    /\ UNCHANGED <<isLogPanelExpanded, isPreviewFullScreen, corrVars, chatVars, dragVars, logs>>

----------------------------------------------------------------------------
Init ==
    /\ htmlCode = initialHtml
    /\ cssCode = initialCss
    /\ htmlDiff = NULL
    /\ cssDiff = NULL
    /\ isLoading = FALSE
    /\ error = NULL
    /\ logs = <<>>
    /\ isLogPanelExpanded = FALSE
    /\ isPreviewPanelExpanded = FALSE
    /\ isPreviewFullScreen = FALSE
    /\ isPreviewPinned = FALSE
    /\ chatQuery = <<>>
    /\ chatResponse = ""
    /\ isChatResponseVisible = FALSE
    /\ isChatLoading = FALSE
    /\ dividerPosition = Num(InitialSplit, 1)
    /\ isDragging = FALSE
    /\ listeners = {}
    /\ corrCalls = <<>>
    /\ chatCalls = <<>>
    /\ lastOp = "mount"
    /\ events = 0
    /\ requested = NULL

NextCorrection(texts, answers) ==
    \/ ClickCorrect
    \/ CorrectCodeSettles(answers)
    \/ ClickAccept
    \/ ClickEditAgain
    \/ TypeHtml(texts)
    \/ TypeCss(texts)

NextChat(texts, outcomes) ==
    \/ SubmitChat
    \/ ChatSettles(outcomes)
    \/ TypeQuery(texts)
    \/ DismissResponse

NextDrag(xs, rects) ==
    \/ handleMouseDown
    \/ DocumentMouseUp
    \/ DocumentMouseMove(xs, rects)

NextPanel ==
    \/ PreviewMouseEnter
    \/ PreviewMouseLeave
    \/ LogMouseEnter
    \/ LogMouseLeave
    \/ handleTogglePreviewFullScreen
    \/ handleTogglePinPreview

\* the whole component, with few inputs per event
Next ==
    \/ NextCorrection(FewTexts, FewAnswers)
    \/ NextChat(FewQueries, FewChatOutcomes)
    \/ NextDrag(FewPointerXs, FewRects)
    \/ NextPanel

Spec == Init /\ [][Next]_vars

\* the two workflows, with few inputs per event
NextFlow ==
    \/ NextCorrection(FewTexts, FewAnswers)
    \/ NextChat(FewQueries, FewChatOutcomes)

SpecFlow == Init /\ [][NextFlow]_vars

\* a pending promise settles: the collaborator answers or fails, and the
\* event loop runs the continuation
FairFlow ==
    /\ SpecFlow
    /\ WF_vars(CorrectCodeSettles(FewAnswers))
    /\ WF_vars(ChatSettles(FewChatOutcomes))

\* each part alone, with all its inputs
SpecCorrection == Init /\ [][NextCorrection(EditTexts, Answers)]_vars
SpecChat == Init /\ [][NextChat(QueryTexts, ChatOutcomes)]_vars
SpecUI == Init /\ [][NextDrag(PointerXs, Rects) \/ NextPanel]_vars

----------------------------------------------------------------------------
(* Properties *)

\* a text is empty or white space only
Blank(text) == \A i \in 1..Len(text) : text[i] \in {" ", "\n", "\t"}

\* a correction sequence is ordered by ascending lineNumber
WellFormed(diff) == \A i \in 1..(Len(diff) - 1) : diff[i].lineNumber < diff[i + 1].lineNumber

\* the corrected fields of the records whose indices are in todo, taken by
\* ascending lineNumber and separated by newlines
RECURSIVE CorrectedByLineNumber(_, _)
CorrectedByLineNumber(diff, todo) ==
    IF todo = {} THEN <<>>
    ELSE LET first == CHOOSE i \in todo : \A j \in todo : diff[i].lineNumber <= diff[j].lineNumber
             rest == todo \ {first}
         IN  diff[first].corrected
             \o (IF rest = {} THEN <<>> ELSE <<"\n">> \o CorrectedByLineNumber(diff, rest))

logEntry(message) == "[HH:MM:SS] " \o message

\* C1: accepting a well-formed CorrectionSet leaves in each buffer the
\* newline join of the corrected fields of its sequence in ascending
\* lineNumber order (the empty text for an empty sequence), and no
\* CorrectionSet is stored afterwards.
C1_AcceptJoinsCorrected ==
    [][(ClickAccept /\ WellFormed(htmlDiff.val) /\ WellFormed(cssDiff.val))
        => /\ htmlCode' = CorrectedByLineNumber(htmlDiff.val, DOMAIN htmlDiff.val)
           /\ cssCode' = CorrectedByLineNumber(cssDiff.val, DOMAIN cssDiff.val)
           /\ (cssDiff.val = <<>> => cssCode' = <<>>)
           /\ (htmlDiff.val = <<>> => htmlCode' = <<>>)
           /\ htmlDiff' = NULL
           /\ cssDiff' = NULL]_vars

\* the scenario of the specification: every HTML line corrected, an empty CSS
\* sequence, accepted
C1_Witness ==
    /\ lastOp = "acceptCorrection"
    /\ htmlCode = <<"x", "h", "\n", "x", "p">>
    /\ cssCode = <<>>
    /\ htmlDiff = NULL
    /\ cssDiff = NULL

\* C2: editAgain leaves both buffers as they were when the correction was
\* requested and leaves no CorrectionSet, whatever happened in between.
C2_EditAgainRestores ==
    [][ClickEditAgain
        => /\ htmlCode' = requested.htmlCode
           /\ cssCode' = requested.cssCode
           /\ htmlDiff' = NULL
           /\ cssDiff' = NULL]_vars

\* a chat query was submitted between the request and its completion, and the
\* review was then ended with editAgain
C2_Witness ==
    /\ lastOp = "editAgain"
    /\ Len(logs) = 5
    /\ logs[5] = logEntry("Correction process started...")
    /\ logs[4] = logEntry("Chat query submitted: \"q\"")
    /\ logs[2] = logEntry("Correction process finished.")
    /\ htmlCode = requested.htmlCode
    /\ cssCode = requested.cssCode

\* C3: a correction requested while both buffers are blank calls no
\* collaborator, leaves the loading flag false, sets the error and adds
\* exactly one log entry, a Validation Error entry.
C3_BlankRequestRejected ==
    [][(ClickCorrect /\ Blank(htmlCode) /\ Blank(cssCode))
        => /\ corrCalls' = corrCalls
           /\ ~isLoading /\ ~isLoading'
           /\ error' = Some("Please enter some HTML or CSS code to correct.")
           /\ Tail(logs') = logs
           /\ Head(logs') = logEntry("Validation Error: Please enter some HTML or CSS code to correct.")]_vars

\* a request with an empty HTML buffer and a white-space CSS buffer was rejected
C3_Witness ==
    /\ lastOp = "requestCorrection"
    /\ htmlCode = <<>>
    /\ cssCode = <<" ">>
    /\ corrCalls = <<>>
    /\ ~isLoading
    /\ error = Some("Please enter some HTML or CSS code to correct.")
    /\ Len(logs) = 1

\* C4: the split position is a number within [15, 85] in every reachable state.
C4_SplitWithinBounds ==
    /\ dividerPosition.kind = "num"
    /\ MinSplit * dividerPosition.d <= dividerPosition.n
    /\ dividerPosition.n <= MaxSplit * dividerPosition.d

\* C5: unpinning the preview panel, or leaving full screen, leaves
\* hoverExpanded false immediately after the call.
C5_UnpinOrExitCollapses ==
    [][((handleTogglePinPreview /\ isPreviewPinned)
        \/ (handleTogglePreviewFullScreen /\ isPreviewFullScreen))
        => ~isPreviewPanelExpanded']_vars

\* the panel was unpinned while full screen was on, and is not hover-expanded
C5_Witness ==
    /\ lastOp = "togglePin"
    /\ ~isPreviewPinned
    /\ isPreviewFullScreen
    /\ ~isPreviewPanelExpanded
    /\ events >= 4

\* C6: a submit while a chat request is pending, or with a blank query,
\* changes neither the log, the stored response, the popup visibility, the
\* pending flag nor the outstanding chat calls.
C6_SubmitNoOp ==
    [][(SubmitChat /\ (isChatLoading \/ Blank(chatQuery)))
        => UNCHANGED <<logs, chatResponse, isChatResponseVisible, isChatLoading, chatCalls>>]_vars

\* a submit arrived while a request was pending and its popup was dismissed:
\* an accepted submit would have shown the popup again
C6_Witness ==
    /\ lastOp = "submitQuery"
    /\ isChatLoading
    /\ ~isChatResponseVisible
    /\ Len(chatCalls) = 1
    /\ Len(logs) = 1

\* C7 as stated: the workflow itself discards a request issued while one is
\* outstanding, so that handleCorrectCode, run while loading, changes nothing.
C7_HandlerDiscardsWhileLoading ==
    isLoading => ~ENABLED (handleCorrectCode /\ corrCalls' # corrCalls)

\* C7 as amended: at most one correction call is outstanding at any time,
\* because the correct button is disabled while loading.
C7_AtMostOneOutstanding ==
    /\ Len(corrCalls) <= 1
    /\ (isLoading => CorrectButtonDisabled)
    /\ (isLoading <=> Len(corrCalls) = 1)

\* a request is outstanding and a click on the correct button was not possible
C7_Witness ==
    /\ isLoading
    /\ Len(corrCalls) = 1
    /\ lastOp = "typeQuery"
    /\ events < MaxEvents
    /\ ~ENABLED ClickCorrect

\* C8: a correction request that is loading, and a chat request that is
\* pending, is eventually not loading / pending any more, once the
\* collaborator has answered or failed.
C8_LoadingResolves ==
    /\ isLoading ~> ~isLoading
    /\ isChatLoading ~> ~isChatLoading

\* both requests were outstanding together, both failed, neither is loading
C8_Witness ==
    /\ lastOp = "chatSettled"
    /\ ~isLoading
    /\ ~isChatLoading
    /\ error = Some("Failed to correct code: 503")
    /\ chatResponse = "**Error:** Failed to get chat response: 503"
    /\ logs[5] = logEntry("Correction process started...")
    /\ logs[4] = logEntry("Chat query submitted: \"q\"")

\* C9: the HTML correction sequence is present exactly when the CSS
\* correction sequence is.
C9_AllOrNothing == (htmlDiff = NULL) <=> (cssDiff = NULL)

\* a CorrectionSet with an empty CSS sequence is stored
C9_Witness ==
    /\ lastOp = "correctionSettled"
    /\ htmlDiff # NULL
    /\ cssDiff = Some(<<>>)
    /\ htmlDiff.val # <<>>

\* the chat operations
ChatOperation == SubmitChat \/ ChatSettles(FewChatOutcomes) \/ DismissResponse

\* C10 as stated: no chat operation changes the error message, the
\* CorrectionSet, the loading flag or a code buffer.
C10_ChatLeavesCorrectionState ==
    [][ChatOperation
        => UNCHANGED <<error, htmlDiff, cssDiff, isLoading, htmlCode, cssCode>>]_vars

\* C10 as amended: no chat operation changes the CorrectionSet, the loading
\* flag or a code buffer; an accepted submit clears the error message, and
\* no other chat operation changes it.
C10_ChatOnlyClearsError ==
    [][ChatOperation
        => /\ UNCHANGED <<htmlDiff, cssDiff, isLoading, htmlCode, cssCode, corrCalls>>
           /\ IF SubmitChat /\ ~isChatLoading /\ ~Blank(chatQuery)
              THEN error' = NULL
              ELSE error' = error]_vars

\* a chat query was submitted after a failed correction, and the error
\* message of the correction is gone
C10_Witness ==
    /\ lastOp = "submitQuery"
    /\ isChatLoading
    /\ error = NULL
    /\ Len(logs) = 4
    /\ logs[3] = logEntry("API Error: Failed to correct code: 503")

\* the continuation of call i runs for the outcome that answer a gives
SettlesWith(i, a) == resumeCorrectCode(i, correctCode(ApiOutcome(a, corrCalls[i])))

\* the state after a correction request ended without a CorrectionSet: back
\* in Editing, with the buffers of the request
BackInEditing ==
    /\ htmlDiff' = NULL
    /\ cssDiff' = NULL
    /\ isLoading' = FALSE
    /\ TextareaEditable(htmlDiff)' /\ TextareaEditable(cssDiff)'
    /\ ~CorrectButtonDisabled'
    /\ UNCHANGED <<htmlCode, cssCode>>
    /\ htmlCode = requested.htmlCode /\ cssCode = requested.cssCode

LacksAnArray(o) ==
    o.kind = "parsed" /\ (~IsArray(o.htmlCorrections) \/ ~IsArray(o.cssCorrections))

InvalidFormatMessage ==
    "Failed to correct code: Invalid JSON response format from API. "
    \o "Expected 'htmlCorrections' and 'cssCorrections' arrays."

\* C12: when the answer of the AI service lacks one of the two correction
\* arrays, neither sequence is stored, an error message is set, the log grows
\* by the entry of that error and the entry of the end, and the workflow is
\* back in Editing with loading false.
C12_MalformedAnswerRejected ==
    [][\A i \in 1..Len(corrCalls), a \in Answers :
          (LacksAnArray(ApiOutcome(a, corrCalls[i])) /\ SettlesWith(i, a))
          => /\ error' # NULL
             /\ error' = Some(InvalidFormatMessage)
             /\ BackInEditing
             /\ logs' = <<logEntry("Correction process finished."),
                          logEntry("API Error: " \o InvalidFormatMessage)>> \o logs]_vars

\* an answer without its CSS array arrived for the initial buffers
C12_Witness ==
    /\ lastOp = "correctionSettled"
    /\ error = Some(InvalidFormatMessage)
    /\ htmlDiff = NULL /\ cssDiff = NULL
    /\ ~isLoading
    /\ corrCalls = <<>>
    /\ htmlCode = initialHtml /\ cssCode = initialCss
    /\ Len(logs) = 3

\* the continuation of chat call i runs for the outcome o of the API
ChatSettlesWith(i, o) == resumeChatSubmit(i, getChatResponse(o))

\* a submit that the handler accepts
AcceptedSubmit == SubmitChat /\ ~isChatLoading /\ ~Blank(chatQuery)

\* C13: when the chat call fails, the stored response becomes "**Error:** "
\* followed by the failure message, a Chat Error log entry is added, the
\* pending flag is false and no call is outstanding; and a submit of a
\* non-blank query while not pending is accepted: it starts a call.
C13_ChatFailureRecovers ==
    [][/\ \A i \in 1..Len(chatCalls), o \in ChatOutcomes :
             (getChatResponse(o).kind = "throw" /\ ChatSettlesWith(i, o))
             => /\ chatResponse' = "**Error:** " \o getChatResponse(o).message
                /\ chatResponse' # getChatResponse(o).message
                /\ logs' = <<logEntry("Chat Error: " \o getChatResponse(o).message)>> \o logs
                /\ ~isChatLoading'
                /\ chatCalls' = <<>>
       /\ AcceptedSubmit => (isChatLoading' /\ Len(chatCalls') = 1)]_vars

\* a chat call failed, and the next query was submitted and accepted
C13_Witness ==
    /\ lastOp = "submitQuery"
    /\ isChatLoading
    /\ Len(chatCalls) = 1
    /\ Len(logs) = 3
    /\ logs[2] = logEntry("Chat Error: Failed to get chat response: 503")
    /\ logs[1] = logEntry("Chat query submitted: \"q\"")

\* C14: when the call of an accepted chat submission settles, with an answer
\* or with a failure, the query becomes the empty text; and from the
\* submission to that moment the query stays the one submitted: the input
\* takes no key stroke and no other step changes it.
C14_QueryClearedAfterCompletion ==
    [][/\ ChatSettles(ChatOutcomes) => chatQuery' = <<>>
       /\ (isChatLoading /\ ~ChatSettles(ChatOutcomes))
            => (chatQuery' = chatQuery /\ ~TypeQuery(QueryTexts))
       /\ AcceptedSubmit => chatCalls'[Len(chatCalls')].query = chatQuery'
       /\ isChatLoading => chatCalls[1].query = chatQuery]_vars

\* a query was submitted, the popup was dismissed while the call was
\* pending, the call failed, and the query is empty
C14_Witness ==
    /\ lastOp = "chatSettled"
    /\ chatQuery = <<>>
    /\ ~isChatLoading
    /\ ~isChatResponseVisible
    /\ events = 3
    /\ chatResponse = "**Error:** API_KEY environment variable not set"

\* C15: while the preview panel is pinned or full screen, a hover event on it
\* changes none of hoverExpanded, pinned and fullscreen; and the log panel's
\* hover state follows its own hover events whatever the pin / full-screen
\* state, and is changed by no event of the preview panel.
C15_HoverSuppressed ==
    [][/\ ((PreviewMouseEnter \/ PreviewMouseLeave)
            /\ (isPreviewPinned \/ isPreviewFullScreen))
           => UNCHANGED <<isPreviewPanelExpanded, isPreviewPinned, isPreviewFullScreen>>
       /\ (PreviewMouseEnter \/ PreviewMouseLeave)
           => UNCHANGED <<isPreviewPinned, isPreviewFullScreen>>
       /\ LogMouseEnter => isLogPanelExpanded'
       /\ LogMouseLeave => ~isLogPanelExpanded'
       /\ (PreviewMouseEnter \/ PreviewMouseLeave \/ handleTogglePinPreview
            \/ handleTogglePreviewFullScreen) => UNCHANGED isLogPanelExpanded]_vars

\* the pointer left a hover-expanded preview panel that had gone full
\* screen, and the panel is still expanded; the log panel had expanded on
\* its own hover during full screen
C15_Witness ==
    /\ lastOp = "previewHoverLeave"
    /\ isPreviewFullScreen
    /\ isPreviewPanelExpanded
    /\ isLogPanelExpanded
    /\ ~isPreviewPinned

\* C16: the split position changes only by a pointer move while a drag is
\* armed: a pointer move while no drag is armed (before a beginDrag, after an
\* endDrag) leaves it unchanged, and so does every other step.
C16_SplitChangesOnlyWhileArmed ==
    [][/\ dividerPosition' # dividerPosition
           => (isDragging /\ DocumentMouseMove(FewPointerXs, FewRects))
       /\ (DocumentMouseMove(FewPointerXs, FewRects) /\ ~isDragging)
           => dividerPosition' = dividerPosition
       /\ ~DocumentMouseMove(FewPointerXs, FewRects)
           => dividerPosition' = dividerPosition]_vars

\* a drag moved the divider to the upper limit and was released, and the
\* pointer then moved on with the divider staying there
C16_Witness ==
    /\ lastOp = "pointerMove"
    /\ ~isDragging
    /\ listeners = {}
    /\ dividerPosition = Num(MaxSplit, 1)

\* the entries a step may add: none, one, or the two of a settled correction
LogGrowth == 0..2

\* C17: recording a message gives the log with exactly one more entry, the
\* new one at the head and the previous entries after it as they were; and
\* every step leaves the previous log as the tail end of the new one, so no
\* entry is ever removed, moved or rewritten and the length never decreases.
C17_LogAppendOnly ==
    [][/\ Len(addLog(logs, "m")) = Len(logs) + 1
       /\ Head(addLog(logs, "m")) = logEntry("m")
       /\ Tail(addLog(logs, "m")) = logs
       /\ Len(logs') >= Len(logs)
       /\ \E k \in LogGrowth :
             /\ Len(logs') = Len(logs) + k
             /\ SubSeq(logs', k + 1, Len(logs')) = logs
       /\ ClickEditAgain
           => (Head(logs') = logEntry("User returned to edit mode.") /\ Tail(logs') = logs)
       /\ ClickAccept
           => (Head(logs') = logEntry("Corrections accepted by user.") /\ Tail(logs') = logs)]_vars

\* a correction failed and a chat query was answered: five entries, the
\* first recorded last in the sequence
C17_Witness ==
    /\ lastOp = "chatSettled"
    /\ Len(logs) = 5
    /\ logs[5] = logEntry("Correction process started...")
    /\ logs[4] = logEntry("API Error: Failed to correct code: 503")
    /\ logs[3] = logEntry("Correction process finished.")
    /\ logs[2] = logEntry("Chat query submitted: \"q\"")
    /\ logs[1] = logEntry("Chat response received.")

\* the state of Requesting: no error, no CorrectionSet, loading, one call
\* outstanding for the buffers as they are
Requesting ==
    /\ isLoading
    /\ error = NULL
    /\ htmlDiff = NULL /\ cssDiff = NULL
    /\ corrCalls = <<[htmlCode |-> htmlCode, cssCode |-> cssCode]>>

\* C18: a correction request with a buffer that is not blank leaves no
\* error, no CorrectionSet, the loading flag set and the buffers unchanged;
\* and as long as the loading flag is set the state stays so, whatever the
\* chat workflow does meanwhile.
C18_RequestClearsAndLoads ==
    [][/\ (ClickCorrect /\ ~(Blank(htmlCode) /\ Blank(cssCode)))
           => (Requesting' /\ UNCHANGED <<htmlCode, cssCode>>)
       /\ isLoading => Requesting
       /\ isLoading' => Requesting']_vars

\* a second request was made after the first had failed, and the error of
\* the first is gone
C18_Witness ==
    /\ lastOp = "requestCorrection"
    /\ Requesting
    /\ Len(logs) = 4
    /\ logs[3] = logEntry("API Error: Failed to correct code: 503")
    /\ logs[1] = logEntry("Correction process started...")

\* the JSON of the answer has both arrays
HasBothArrays(o) ==
    o.kind = "parsed" /\ IsArray(o.htmlCorrections) /\ IsArray(o.cssCorrections)

\* C19: when the answer has both correction arrays, empty or not, exactly
\* those two sequences are stored, the loading flag is false and the accept /
\* edit-again buttons are rendered (Reviewing), the error stays none, both
\* buffers are unchanged, and the success entry is logged under the entry of
\* the end.
C19_SuccessStoresBoth ==
    [][\A i \in 1..Len(corrCalls), a \in Answers :
          LET o == ApiOutcome(a, corrCalls[i])
          IN  (HasBothArrays(o) /\ SettlesWith(i, a))
              => /\ htmlDiff' = o.htmlCorrections
                 /\ cssDiff' = o.cssCorrections
                 /\ ~isLoading'
                 /\ ReviewButtonsRendered'
                 /\ error' = NULL
                 /\ UNCHANGED <<htmlCode, cssCode>>
                 /\ logs' = <<logEntry("Correction process finished."),
                              logEntry("Correction successful. Diff generated.")>>
                            \o logs]_vars

\* an answer with two empty arrays was stored and is under review
C19_Witness ==
    /\ lastOp = "correctionSettled"
    /\ htmlDiff = Some(<<>>)
    /\ cssDiff = Some(<<>>)
    /\ ~isLoading
    /\ error = NULL
    /\ ReviewButtonsRendered
    /\ htmlCode = initialHtml /\ cssCode = initialCss

\* C20: an accepted submit adds the one log entry that quotes the query,
\* sets the stored response to the empty string, shows the popup whether or
\* not it was visible, sets the pending flag and starts one call; when the
\* call returns an answer, the stored response is that answer and the entry
\* "Chat response received." is added.
C20_AcceptedSubmitEffects ==
    [][/\ AcceptedSubmit
           => /\ logs' = <<logEntry("Chat query submitted: \"" \o Str(chatQuery) \o "\"")>>
                         \o logs
              /\ chatResponse' = ""
              /\ isChatResponseVisible'
              /\ isChatLoading'
              /\ chatCalls' = <<[htmlCode |-> htmlCode, cssCode |-> cssCode,
                                 query |-> chatQuery]>>
       /\ \A i \in 1..Len(chatCalls), o \in ChatOutcomes :
             (o.kind = "text" /\ ChatSettlesWith(i, o))
             => /\ chatResponse' = o.text
                /\ logs' = <<logEntry("Chat response received.")>> \o logs
                /\ ~isChatLoading'
                /\ UNCHANGED isChatResponseVisible]_vars

\* a first query was answered, and a second one was submitted and is
\* pending: the popup is visible and the first answer is gone
C20_Witness ==
    /\ lastOp = "submitQuery"
    /\ events = MaxEvents
    /\ isChatLoading
    /\ isChatResponseVisible
    /\ chatResponse = ""
    /\ Len(logs) = 3
    /\ logs[2] = logEntry("Chat response received.")

\* C21: dismissing the popup hides it and changes neither the stored
\* response, the pending flag, the query, the log nor the outstanding call;
\* a call that is pending when the popup is dismissed still settles and
\* stores its answer, with the popup hidden; and the popup becomes visible
\* again only by an accepted submit.
C21_DismissOnlyHides ==
    [][/\ DismissResponse
           => /\ ~isChatResponseVisible'
              /\ UNCHANGED <<chatResponse, isChatLoading, chatQuery, logs, chatCalls>>
              /\ (isChatLoading => Len(chatCalls') = 1)
       /\ \A i \in 1..Len(chatCalls), o \in ChatOutcomes :
             ChatSettlesWith(i, o)
             => /\ UNCHANGED isChatResponseVisible
                /\ (o.kind = "text" => chatResponse' = o.text)
       /\ (~isChatResponseVisible /\ isChatResponseVisible') => AcceptedSubmit]_vars

\* the popup was dismissed while the call was pending, the call returned its
\* answer, and the answer is stored behind a hidden popup
C21_Witness ==
    /\ lastOp = "chatSettled"
    /\ ~isChatResponseVisible
    /\ ~isChatLoading
    /\ chatResponse = "It is fine."
    /\ events = 3
    /\ Len(logs) = 2

\* a buffer differs after the step
BufferChanges == htmlCode' # htmlCode \/ cssCode' # cssCode

\* C22: a key stroke changes a buffer only while no CorrectionSet is stored
\* and no correction request is outstanding; while a request is outstanding
\* or a CorrectionSet is stored, the only step that changes a buffer is the
\* accept.
C22_EditsOnlyWhileEditing ==
    [][/\ (BufferChanges /\ (TypeHtml(FewTexts) \/ TypeCss(FewTexts)))
           => (~isLoading /\ htmlDiff = NULL /\ cssDiff = NULL /\ corrCalls = <<>>)
       /\ (BufferChanges /\ (isLoading \/ htmlDiff # NULL \/ cssDiff # NULL))
           => ClickAccept
       /\ BufferChanges => (ClickAccept \/ TypeHtml(FewTexts) \/ TypeCss(FewTexts))]_vars

\* the CSS buffer was edited, a correction was requested and answered, and
\* the accept changed both buffers
C22_Witness ==
    /\ lastOp = "acceptCorrection"
    /\ requested # NULL
    /\ requested.cssCode = <<" ">>
    /\ cssCode = <<>>
    /\ htmlCode = <<"x", "h", "\n", "x", "p">>
    /\ events = 3

\* the state of Reviewing: both sequences stored, no request outstanding
Reviewing ==
    /\ htmlDiff # NULL
    /\ cssDiff # NULL
    /\ ~isLoading
    /\ corrCalls = <<>>

\* C23: the accept and the edit-again run only in Reviewing, with both
\* correction sequences stored and no request outstanding; without a stored
\* CorrectionSet, or while a request is outstanding, neither can be invoked.
C23_ReviewOperationsOnlyInReviewing ==
    [][/\ (ClickAccept \/ ClickEditAgain) => Reviewing
       /\ (htmlDiff = NULL \/ cssDiff = NULL \/ isLoading)
           => (~ENABLED ClickAccept /\ ~ENABLED ClickEditAgain)
       /\ (lastOp' \in {"acceptCorrection", "editAgain"} /\ lastOp' # lastOp) => Reviewing]_vars

\* a CorrectionSet of two empty sequences for the initial buffers was left
\* with edit-again
C23_Witness ==
    /\ lastOp = "editAgain"
    /\ events = 2
    /\ Len(logs) = 4
    /\ logs[2] = logEntry("Correction process finished.")
    /\ htmlDiff = NULL /\ cssDiff = NULL
    /\ htmlCode = initialHtml /\ cssCode = initialCss

\* the two listeners of an armed drag: the mousemove handler of the render
\* that saw isDragging true, and the mouseup handler
ArmedListeners == {[type |-> "mousemove", isDragging |-> TRUE], [type |-> "mouseup"]}

\* C24: the document's mousemove and mouseup listeners are registered
\* exactly while a drag is armed: both are present after a mouse down on the
\* divider, a mouse up anywhere in the document disarms the drag, and while
\* no drag is armed no listener is registered, however many drags there were.
C24_ListenersWhileArmed ==
    [][/\ isDragging => listeners = ArmedListeners
       /\ ~isDragging => listeners = {}
       /\ handleMouseDown => (isDragging' /\ listeners' = ArmedListeners)
       /\ DocumentMouseUp => (~isDragging' /\ listeners' = {})
       /\ Cardinality(listeners') <= 2]_vars

\* a second drag moved the divider and was released
C24_Witness ==
    /\ lastOp = "endDrag"
    /\ events = 5
    /\ ~isDragging
    /\ listeners = {}
    /\ dividerPosition = Num(30, 1)

\* the operations of the correction workflow
CorrectionOperation ==
    ClickCorrect \/ CorrectCodeSettles(FewAnswers) \/ ClickAccept \/ ClickEditAgain

\* C25: a correction call and a chat call can be outstanding together, and
\* then each of the two can settle next; and no operation of the correction
\* workflow (request, completion, accept, edit-again) changes the query, the
\* stored response, the popup visibility, the pending flag or the
\* outstanding chat call.
C25_WorkflowsOverlap ==
    [][/\ CorrectionOperation
           => UNCHANGED <<chatQuery, chatResponse, isChatResponseVisible, isChatLoading,
                          chatCalls>>
       /\ (corrCalls # <<>> /\ chatCalls # <<>>)
           => /\ ENABLED CorrectCodeSettles(FewAnswers)
              /\ ENABLED ChatSettles(FewChatOutcomes)]_vars

\* both calls were outstanding, the chat call was answered first, and the
\* correction call is still outstanding
C25_Witness ==
    /\ lastOp = "chatSettled"
    /\ isLoading
    /\ Len(corrCalls) = 1
    /\ ~isChatLoading
    /\ chatResponse = "It is fine."
    /\ logs[3] = logEntry("Correction process started...")
    /\ logs[2] = logEntry("Chat query submitted: \"q\"")

\* C26: while a correction request is outstanding no correction sequence is
\* stored, and while one is stored no request is outstanding: Requesting and
\* Reviewing never hold together.
C26_LoadingExcludesCorrectionSet ==
    /\ isLoading => (htmlDiff = NULL /\ cssDiff = NULL)
    /\ (htmlDiff # NULL \/ cssDiff # NULL) => (~isLoading /\ corrCalls = <<>>)
    /\ ~(isLoading /\ ReviewButtonsRendered)

\* a CorrectionSet was accepted and the next request is outstanding
C26_Witness ==
    /\ lastOp = "requestCorrection"
    /\ isLoading
    /\ htmlDiff = NULL /\ cssDiff = NULL
    /\ Len(logs) = 5
    /\ logs[2] = logEntry("Corrections accepted by user.")
    /\ logs[3] = logEntry("Correction process finished.")

\* a stored correction sequence is gone or replaced after the step
CorrectionSetDiscarded ==
    \/ (htmlDiff # NULL /\ htmlDiff' # htmlDiff)
    \/ (cssDiff # NULL /\ cssDiff' # cssDiff)

\* C27: while both correction sequences are stored the correct button is
\* disabled, so that no request can be triggered; and a stored CorrectionSet
\* is discarded only by the accept or the edit-again, never by a request.
C27_NoRequestDuringReview ==
    [][/\ (htmlDiff # NULL /\ cssDiff # NULL)
           => (CorrectButtonDisabled /\ ~ENABLED ClickCorrect /\ ~ClickCorrect)
       /\ CorrectionSetDiscarded => (ClickAccept \/ ClickEditAgain)
       /\ CorrectionSetDiscarded => (htmlDiff' = NULL /\ cssDiff' = NULL)]_vars

\* a CorrectionSet of two non-empty sequences is under review, and a click on
\* the correct button is not possible
C27_Witness ==
    /\ lastOp = "correctionSettled"
    /\ htmlDiff # NULL /\ cssDiff # NULL
    /\ htmlDiff.val # <<>> /\ cssDiff.val # <<>>
    /\ ~isLoading
    /\ events < MaxEvents
    /\ ~ENABLED ClickCorrect
    /\ ENABLED ClickEditAgain

\* the number of entries of a log that are equal to entry
RECURSIVE Count(_, _)
Count(log, entry) ==
    IF log = <<>> THEN 0
    ELSE (IF Head(log) = entry THEN 1 ELSE 0) + Count(Tail(log), entry)

StartedEntry == logEntry("Correction process started...")
FinishedEntry == logEntry("Correction process finished.")

\* the entries that record the outcome of a correction request
OutcomeEntries ==
    {logEntry("Correction successful. Diff generated."),
     logEntry("API Warning: No corrections found or unexpected API response."),
     logEntry("API Error: Failed to correct code: 503"),
     logEntry("API Error: " \o InvalidFormatMessage),
     logEntry("API Error: API_KEY environment variable not set"),
     logEntry("Error: An unknown error occurred.")}

CorrectionEntries == OutcomeEntries \cup {StartedEntry, FinishedEntry}

\* the entry at position k (newest first) ends a request: the entry just
\* older is the outcome of the request, and the next older entry of the
\* correction workflow is the start of the request
EndsOneRequest(k) ==
    /\ k + 1 <= Len(logs)
    /\ logs[k + 1] \in OutcomeEntries
    /\ \E j \in (k + 2)..Len(logs) :
          /\ logs[j] = StartedEntry
          /\ \A x \in (k + 2)..(j - 1) : logs[x] \notin CorrectionEntries

\* every end is the end of one request, and the starts are the ends plus the
\* request that is outstanding
StartedFinishedPaired ==
    /\ \A k \in 1..Len(logs) : logs[k] = FinishedEntry => EndsOneRequest(k)
    /\ Count(logs, StartedEntry) = Count(logs, FinishedEntry) + Len(corrCalls)
    /\ Len(corrCalls) <= 1

\* C28: every "Correction process started..." entry is eventually followed
\* by exactly one "Correction process finished." entry of the same request,
\* with the entry of the outcome of that request between the two; and a
\* request rejected by the validation records neither of the two.
C28_StartedThenFinished ==
    /\ []StartedFinishedPaired
    /\ \A n \in 1..MaxEvents :
          (Count(logs, StartedEntry) = n) ~> (Count(logs, FinishedEntry) = n)
    /\ [][(ClickCorrect /\ Blank(htmlCode) /\ Blank(cssCode))
           => /\ Count(logs', StartedEntry) = Count(logs, StartedEntry)
              /\ Count(logs', FinishedEntry) = Count(logs, FinishedEntry)
              /\ Len(logs') = Len(logs) + 1]_vars

\* a request failed, both buffers were blanked and the next request was
\* rejected by the validation: the log holds one start and one end
C28_Witness ==
    /\ lastOp = "requestCorrection"
    /\ Count(logs, StartedEntry) = 1
    /\ Count(logs, FinishedEntry) = 1
    /\ Len(logs) = 4
    /\ logs[1] = logEntry("Validation Error: Please enter some HTML or CSS code to correct.")
    /\ logs[2] = FinishedEntry

----------------------------------------------------------------------------
(* Round trip of a buffer through an honest correction *)

\* the longest text typed into the HTML buffer
MaxLen == 3

\* every text of at most MaxLen characters over a letter and the newline:
\* empty lines, leading and trailing newlines included
RoundTripTexts == UNION {[1..n -> {"a", "\n"}] : n \in 0..MaxLen}

\* an answer that honours the contract for both buffers, one that corrects
\* the HTML lines, and one with no record at all
RoundTripAnswers == {Parsed("honest", "honest"), Parsed("fixed", "honest"),
                     Parsed("empty", "empty")}

NextRoundTrip ==
    \/ ClickCorrect
    \/ CorrectCodeSettles(RoundTripAnswers)
    \/ ClickAccept
    \/ ClickEditAgain
    \/ TypeHtml(RoundTripTexts)
    \/ TypeCss(FewTexts)

SpecRoundTrip == Init /\ [][NextRoundTrip]_vars

\* the sequence has one record per line of the text, in order and numbered
\* from 1, with no error reported and corrected = original
HonoursContract(diff, text) ==
    LET ls == splitLines(text, <<>>)
    IN  /\ Len(diff) = Len(ls)
        /\ \A i \in 1..Len(diff) :
              /\ diff[i].lineNumber = i
              /\ diff[i].original = ls[i]
              /\ ~diff[i].isError
              /\ diff[i].corrected = diff[i].original

\* C29: when both stored sequences honour the contract for the buffers of
\* the request and report no error, the accept leaves both buffers equal to
\* the buffers of the request: the newline join of the lines of a text is
\* the text.
C29_RoundTrip ==
    [][(/\ ClickAccept
        /\ HonoursContract(htmlDiff.val, requested.htmlCode)
        /\ HonoursContract(cssDiff.val, requested.cssCode))
        => /\ htmlCode' = requested.htmlCode
           /\ cssCode' = requested.cssCode
           /\ htmlCode' = htmlCode
           /\ cssCode' = cssCode
           /\ join(splitLines(htmlCode, <<>>), <<"\n">>) = htmlCode]_vars

\* a text that ends in an empty line went through an honest correction and
\* came back as it was
C29_Witness ==
    /\ lastOp = "acceptCorrection"
    /\ htmlCode = <<"a", "\n", "\n">>
    /\ cssCode = <<" ">>
    /\ requested.htmlCode = htmlCode
    /\ requested.cssCode = cssCode
    /\ htmlDiff = NULL /\ cssDiff = NULL

====
